---- MODULE Spec2Model ----
(***************************************************************************)
(* A model of lw_airflow.core: the column sanitizers and ColumnSpec        *)
(* (db.py), the managed Snowflake task group, the query formatter and the  *)
(* wait_n_hours sensor (operators.py), and the Hawkeye completion sensor   *)
(* (experimental_operators.py).                                            *)
(*                                                                         *)
(* A Python str is a sequence of one-character strings.  SQL text built    *)
(* from an f-string template is a sequence of pieces in template order: a  *)
(* template literal is one multi-character piece, interpolated text is     *)
(* its characters.                                                         *)
(***************************************************************************)
EXTENDS Integers, Sequences, FiniteSets, TLC

VARIABLES
    fn, arg, ret, again,          \* sanitizer / formatter: the last call
    colArgs, colspec, clauseRet,  \* ColumnSpec: the raw fields, the object, its clause
    grpArgs, grp, taskState,      \* the task group call, its result, its tasks
    logical, nHours, now, sensor, lastPoke, everFalse, \* wait_n_hours sensor
    hkArgs, statusTable, hkPoke   \* Hawkeye sensor

sanVars  == <<fn, arg, ret, again>>
colVars  == <<colArgs, colspec, clauseRet>>
grpVars  == <<grpArgs, grp, taskState>>
waitVars == <<logical, nHours, now, sensor, lastPoke, everFalse>>
hkVars   == <<hkArgs, statusTable, hkPoke>>
vars     == <<sanVars, colVars, grpVars, waitVars, hkVars>>

(***************************************************************************)
(* Bounds.                                                                 *)
(***************************************************************************)
MaxLen == 3        \* longest input string of the sanitizers and formatter

(***************************************************************************)
(* Strings.                                                                *)
(***************************************************************************)
RECURSIVE StringsOfLen(_, _)
StringsOfLen(alphabet, n) ==
    IF n = 0 THEN {<<>>}
    ELSE {Append(s, c) : s \in StringsOfLen(alphabet, n - 1), c \in alphabet}

Strings(alphabet, n) == UNION {StringsOfLen(alphabet, k) : k \in 0..n}

\* Input characters: a letter, a digit, an underscore, the parentheses, a
\* space, a newline, a single quote and a semicolon.
Alphabet == {"a", "1", "_", "(", ")", " ", "\n", "'", ";"}

Inputs == Strings(Alphabet, MaxLen)

\* A call's outcome: the returned string, or the exception raised.
Ok(s)   == [ok |-> TRUE, val |-> s, err |-> ""]
Fail(e) == [ok |-> FALSE, val |-> <<>>, err |-> e]
NoCall  == [ok |-> FALSE, val |-> <<>>, err |-> "none"]

(***************************************************************************)
(* Python's re and str primitives used by db.py and operators.py.          *)
(***************************************************************************)
AsciiLetters ==
    {"a", "b", "c", "d", "e", "f", "g", "h", "i", "j", "k", "l", "m",
     "n", "o", "p", "q", "r", "s", "t", "u", "v", "w", "x", "y", "z",
     "A", "B", "C", "D", "E", "F", "G", "H", "I", "J", "K", "L", "M",
     "N", "O", "P", "Q", "R", "S", "T", "U", "V", "W", "X", "Y", "Z"}
AsciiDigits == {"0", "1", "2", "3", "4", "5", "6", "7", "8", "9"}

\* \w on a str pattern, restricted to ASCII input characters.
WordChars == AsciiLetters \cup AsciiDigits \cup {"_"}

\* The characters str.strip() removes, among those a TLA+ string can name.
Whitespace == {" ", "\t", "\n", "\r", "\f"}

\* "$" without re.MULTILINE: at the end of the string, or just before a
\* newline that is the last character.  i is the index of the next character.
AtDollar(s, i) == i = Len(s) + 1 \/ (i = Len(s) /\ s[i] = "\n")

\* re.match("^[class]+$", s)
MatchClassPlus(class, s) ==
    \E k \in 1..Len(s) : (\A j \in 1..k : s[j] \in class) /\ AtDollar(s, k + 1)

\* re.match(r"^[A-Za-z_].*", s): ".*" matches the empty string, so only the
\* first character decides.
MatchIdentStart(s) == Len(s) >= 1 /\ s[1] \in AsciiLetters \cup {"_"}

RECURSIVE LStrip(_, _)
LStrip(s, chars) ==
    IF s /= <<>> /\ Head(s) \in chars THEN LStrip(Tail(s), chars) ELSE s

RECURSIVE RStrip(_, _)
RStrip(s, chars) ==
    IF s /= <<>> /\ s[Len(s)] \in chars
    THEN RStrip(SubSeq(s, 1, Len(s) - 1), chars)
    ELSE s

\* str.strip()
Strip(s) == RStrip(LStrip(s, Whitespace), Whitespace)

\* str.replace(old, new) for a one-character old.
RECURSIVE Replace(_, _, _)
Replace(s, old, new) ==
    IF s = <<>> THEN <<>>
    ELSE (IF Head(s) = old THEN new ELSE <<Head(s)>>) \o Replace(Tail(s), old, new)

(***************************************************************************)
(* db.py: the sanitizers.                                                  *)
(***************************************************************************)
sanitize_column_name(name) ==
    IF ~MatchClassPlus(WordChars, name) THEN Fail("AssertionError")
    ELSE IF ~MatchIdentStart(name) THEN Fail("AssertionError")
    ELSE Ok(name)

\* The loop of sanitize_column_type over type_str[i..]: TRUE iff no assert
\* fails, the one after the loop included.
RECURSIVE ParenScan(_, _, _)
ParenScan(s, i, open_count) ==
    IF i > Len(s) THEN open_count = 0
    ELSE IF s[i] = "(" THEN ParenScan(s, i + 1, open_count + 1)
    ELSE IF s[i] = ")" THEN open_count > 0 /\ ParenScan(s, i + 1, open_count - 1)
    ELSE ParenScan(s, i + 1, open_count)

sanitize_column_type(type_str) ==
    IF type_str = <<>> THEN Ok(type_str)
    ELSE IF ~MatchClassPlus(WordChars \cup {"(", ")", ",", " "}, type_str)
         THEN Fail("AssertionError")
    ELSE IF ~ParenScan(type_str, 1, 0) THEN Fail("AssertionError")
    ELSE Ok(type_str)

\* A plausible slip: escape only the first quote.
RECURSIVE ReplaceFirst(_, _, _)
ReplaceFirst(s, old, new) ==
    IF s = <<>> THEN <<>>
    ELSE IF Head(s) = old THEN new \o Tail(s)
    ELSE <<Head(s)>> \o ReplaceFirst(Tail(s), old, new)

sanitize_comment_first_only(comment) == Ok(ReplaceFirst(comment, "'", <<"\\", "'">>))

sanitize_comment(comment) == Ok(Replace(comment, "'", <<"\\", "'">>))

(***************************************************************************)
(* operators.py: the query formatter.                                      *)
(***************************************************************************)
\* A plausible slip: remove one trailing semicolon only.
format_query_one_semicolon(snow_sql) ==
    LET t == Strip(snow_sql)
    IN  IF t /= <<>> /\ t[Len(t)] = ";" THEN SubSeq(t, 1, Len(t) - 1) ELSE t

format_query(snow_sql) == RStrip(Strip(snow_sql), {";"})

(***************************************************************************)
(* The sanitizer and formatter as called with arbitrary input.             *)
(***************************************************************************)
SanIdle == fn = "none" /\ arg = <<>> /\ ret = NoCall /\ again = NoCall

\* The input of the call to come.
SanInit == fn = "none" /\ arg \in Inputs /\ ret = NoCall /\ again = NoCall

CallSanitizeColumnName ==
    /\ fn = "none"
    /\ fn' = "sanitize_column_name"
    /\ ret' = sanitize_column_name(arg)
    /\ UNCHANGED <<arg, again, colVars, grpVars, waitVars, hkVars>>

CallSanitizeColumnType ==
    /\ fn = "none"
    /\ fn' = "sanitize_column_type"
    /\ ret' = sanitize_column_type(arg)
    /\ UNCHANGED <<arg, again, colVars, grpVars, waitVars, hkVars>>

CallSanitizeComment ==
    /\ fn = "none"
    /\ fn' = "sanitize_comment"
    /\ ret' = sanitize_comment(arg)
    /\ UNCHANGED <<arg, again, colVars, grpVars, waitVars, hkVars>>

\* sanitize_comment applied to its own output.
ReSanitizeComment ==
    /\ fn = "sanitize_comment" /\ again = NoCall
    /\ again' = sanitize_comment(ret.val)
    /\ UNCHANGED <<fn, arg, ret, colVars, grpVars, waitVars, hkVars>>

CallFormatQuery ==
    /\ fn = "none"
    /\ fn' = "format_query"
    /\ ret' = Ok(format_query(arg))
    /\ UNCHANGED <<arg, again, colVars, grpVars, waitVars, hkVars>>

SanNext ==
    \/ CallSanitizeColumnName
    \/ CallSanitizeColumnType
    \/ CallSanitizeComment
    \/ ReSanitizeComment
    \/ CallFormatQuery

(***************************************************************************)
(* db.py: ColumnSpec.                                                      *)
(***************************************************************************)
MaxFieldLen == 2   \* longest raw name, type or comment given to ColumnSpec

NameInputs    == Strings({"a", "1", "\n"}, MaxFieldLen)
TypeInputs    == Strings({"a", " ", "\n"}, MaxFieldLen)
CommentInputs == Strings({"a", " ", "'"}, MaxFieldLen)

NoColumn == [state |-> "none", name |-> <<>>, col_type |-> <<>>, comment |-> <<>>]
ColumnRaised == [state |-> "raised", name |-> <<>>, col_type |-> <<>>, comment |-> <<>>]

\* ColumnSpec.__init__: the three sanitizers in turn; a failed assert leaves
\* no object.
ColumnSpec(name, col_type, comment) ==
    LET n == sanitize_column_name(name)
        t == sanitize_column_type(col_type)
        c == sanitize_comment(comment)
    IN  IF ~n.ok \/ ~t.ok \/ ~c.ok THEN ColumnRaised
        ELSE [state |-> "made", name |-> n.val, col_type |-> t.val, comment |-> c.val]

CommentOpen == <<"C", "O", "M", "M", "E", "N", "T", " ", "'">>

\* f"{self.name} {self.col_type} {comment}" before the strip.
ClauseText(self) ==
    LET comment == IF self.comment /= <<>>
                   THEN CommentOpen \o self.comment \o <<"'">>
                   ELSE <<>>
    IN  self.name \o <<" ">> \o self.col_type \o <<" ">> \o comment

\* A plausible slip: the f-string returned without .strip().
clause_unstripped(self) ==
    IF self.col_type = <<>> THEN Fail("AssertionError") ELSE Ok(ClauseText(self))

\* ColumnSpec.clause
clause(self) ==
    IF self.col_type = <<>> THEN Fail("AssertionError") ELSE Ok(Strip(ClauseText(self)))

ColIdle ==
    /\ colArgs = <<<<>>, <<>>, <<>>>>
    /\ colspec = NoColumn /\ clauseRet = NoCall

\* The raw name, type and comment of the ColumnSpec to come.
ColInit ==
    /\ colArgs \in NameInputs \X TypeInputs \X CommentInputs
    /\ colspec = NoColumn /\ clauseRet = NoCall

NewColumnSpec ==
    /\ colspec.state = "none"
    /\ colspec' = ColumnSpec(colArgs[1], colArgs[2], colArgs[3])
    /\ UNCHANGED <<colArgs, clauseRet, sanVars, grpVars, waitVars, hkVars>>

ReadClause ==
    /\ colspec.state = "made"
    /\ clauseRet = NoCall
    /\ clauseRet' = clause(colspec)
    /\ UNCHANGED <<colArgs, colspec, sanVars, grpVars, waitVars, hkVars>>

ColNext == NewColumnSpec \/ ReadClause

(***************************************************************************)
(* operators.py: managed_snowflake_task_group.                             *)
(*                                                                         *)
(* The sql of a task is the sequence of its template lines, each with the  *)
(* name of the template slot it holds and its text; a slot whose value is  *)
(* the empty string leaves an empty line.                                  *)
(***************************************************************************)
MaxCols     == 2   \* longest output_columns list
MaxWhereLen == 2   \* longest replace_where predicate

\* str.join
RECURSIVE Join(_, _)
Join(texts, sep) ==
    IF texts = <<>> THEN <<>>
    ELSE IF Len(texts) = 1 THEN texts[1]
    ELSE texts[1] \o sep \o Join(Tail(texts), sep)

\* A plausible slip: COMMIT left out of the settings.
transaction_settings_no_commit(create_transaction) ==
    << IF create_transaction THEN <<"BEGIN TRANSACTION;">> ELSE <<>>,
       <<>>,
       IF create_transaction THEN "FALSE" ELSE "TRUE" >>

\* _transaction_settings: (transaction_start, transaction_end, autocommit_state)
transaction_settings(create_transaction) ==
    << IF create_transaction THEN <<"BEGIN TRANSACTION;">> ELSE <<>>,
       IF create_transaction THEN <<"COMMIT;">> ELSE <<>>,
       IF create_transaction THEN "FALSE" ELSE "TRUE" >>

\* dict.get(key, default)
Get(d, key, default) == IF key \in DOMAIN d THEN d[key] ELSE default

\* The default_args of the DAG in context.
DagDefaultArgs == [database |-> "dag_db", schema |-> "dag_schema"]

FullTableName(default_args, output_table) ==
    << Get(default_args, "database", DagDefaultArgs["database"]), ".",
       Get(default_args, "schema", DagDefaultArgs["schema"]), ".",
       output_table >>

\* A plausible slip: the predicate interpolated as given.
DeleteStatementVerbatim(full_table_name, replace_where) ==
    IF replace_where /= <<>>
    THEN <<"DELETE FROM ">> \o full_table_name \o <<" WHERE ">>
         \o replace_where \o <<";">>
    ELSE <<>>

\* delete = f"DELETE FROM ... WHERE {_format_query(replace_where)};" if replace_where else ""
DeleteStatement(full_table_name, replace_where) ==
    IF replace_where /= <<>>
    THEN <<"DELETE FROM ">> \o full_table_name \o <<" WHERE ">>
         \o format_query(replace_where) \o <<";">>
    ELSE <<>>

\* pre_insert / post_insert: if x: x = _format_query(x) + ";"
Terminated(fragment) ==
    IF fragment /= <<>> THEN format_query(fragment) \o <<";">> ELSE <<>>

Line(slot, text) == [slot |-> slot, text |-> text]

CreateSql(a, full_table_name, columns) ==
    << Line("create",
            <<"CREATE ">> \o a.table_type \o <<" TABLE IF NOT EXISTS ">>
            \o full_table_name \o <<" (">> \o columns \o <<")">>),
       Line("cluster_by",
            (IF a.cluster_by /= <<>>
             THEN <<"CLUSTER BY (">> \o Join(a.cluster_by, <<",", " ">>) \o <<")">>
             ELSE <<>>) \o <<";">>) >>

ReplaceSql(a, full_table_name, col_names) ==
    LET ts == transaction_settings(a.create_transaction)
    IN  << Line("session_set", <<"alter session set">>),
           Line("session_set", <<"TIMEZONE = 'UTC'">>),
           Line("session_set", <<"TIMESTAMP_TYPE_MAPPING = TIMESTAMP_LTZ">>),
           Line("session_set", <<"AUTOCOMMIT = ", ts[3], ";">>),
           Line("transaction_start", ts[1]),
           Line("pre_insert", Terminated(a.pre_insert)),
           Line("delete", DeleteStatement(full_table_name, a.replace_where)),
           Line("insert", <<"INSERT INTO ">> \o full_table_name
                          \o <<" (">> \o col_names \o <<")">>),
           Line("insert", <<"SELECT ">> \o col_names),
           Line("insert", <<"FROM (">> \o format_query(a.select) \o <<");">>),
           Line("post_insert", Terminated(a.post_insert)),
           Line("transaction_end", ts[2]),
           Line("session_unset",
                <<"alter session unset TIMEZONE, TIMESTAMP_TYPE_MAPPING, AUTOCOMMIT;">>) >>

NoGroup == [state |-> "none", create |-> <<>>, replace |-> <<>>, edges |-> {}]
GroupRaised == [state |-> "raised", create |-> <<>>, replace |-> <<>>, edges |-> {}]

\* The call as a whole: the clause of an untyped column raises inside the
\* TaskGroup block and no operator is made; otherwise both operators are
\* made and create >> replace is recorded.
managed_snowflake_task_group(a) ==
    LET full_table_name == FullTableName(a.default_args, a.output_table)
        clauses == [i \in 1..Len(a.output_columns) |-> clause(a.output_columns[i])]
        names   == [i \in 1..Len(a.output_columns) |-> a.output_columns[i].name]
    IN  IF \E i \in 1..Len(clauses) : ~clauses[i].ok THEN GroupRaised
        ELSE [state   |-> "built",
              create  |-> CreateSql(a, full_table_name,
                              Join([i \in 1..Len(clauses) |-> clauses[i].val],
                                   <<",", " ">>)),
              replace |-> ReplaceSql(a, full_table_name, Join(names, <<",", " ">>)),
              edges   |-> {<<"create", "replace">>}]

(***************************************************************************)
(* The task group as assembled once and then run by the scheduler.         *)
(***************************************************************************)
ColId      == ColumnSpec(<<"i", "d">>, <<"I", "N", "T">>, <<>>)
ColName    == ColumnSpec(<<"n">>, <<"V", "(", "5", ")">>, <<"c">>)
ColUntyped == ColumnSpec(<<"u">>, <<>>, <<>>)

ColumnLists == UNION {[1..k -> {ColId, ColName, ColUntyped}] : k \in 0..MaxCols}

\* How the call is dressed: the bare call, and one with a table type, a
\* cluster key and its own database and schema.
Dressings ==
    {[table_type |-> <<>>, cluster_by |-> <<>>,
      default_args |-> [warehouse |-> "wh"]],
     [table_type |-> <<"TRANSIENT">>, cluster_by |-> << <<"i", "d">>, <<"n">> >>,
      default_args |-> [warehouse |-> "wh", database |-> "my_db",
                        schema |-> "my_schema"]]}

GroupArgs ==
    {[output_table       |-> "t",
      output_columns     |-> cols,
      select             |-> <<" ", "s", ";">>,
      replace_where      |-> where,
      pre_insert         |-> pre,
      post_insert        |-> post,
      table_type         |-> d.table_type,
      create_transaction |-> tx,
      cluster_by         |-> d.cluster_by,
      default_args       |-> d.default_args] :
        cols \in ColumnLists,
        where \in Strings({"x", ";", " "}, MaxWhereLen),
        pre \in {<<>>, <<" ", "p", ";", ";">>},
        post \in {<<>>, <<"q">>},
        tx \in BOOLEAN,
        d \in Dressings}

NoArgs ==
    [output_table |-> "", output_columns |-> <<>>, select |-> <<>>,
     replace_where |-> <<>>, pre_insert |-> <<>>, post_insert |-> <<>>,
     table_type |-> <<>>, create_transaction |-> FALSE, cluster_by |-> <<>>,
     default_args |-> [warehouse |-> ""]]

Tasks == {"create", "replace"}

GrpIdle ==
    /\ grpArgs = NoArgs
    /\ grp = NoGroup
    /\ taskState = [t \in Tasks |-> "none"]

Assemble ==
    /\ grp.state = "none"
    /\ \E a \in GroupArgs :
        /\ grpArgs' = a
        /\ grp' = managed_snowflake_task_group(a)
    /\ UNCHANGED <<taskState, sanVars, colVars, waitVars, hkVars>>

\* create >> replace: a task starts once every task upstream of it succeeded.
Upstream(t) == {e[1] : e \in {d \in grp.edges : d[2] = t}}

StartTask(t) ==
    /\ grp.state = "built"
    /\ taskState[t] = "none"
    /\ \A u \in Upstream(t) : taskState[u] = "success"
    /\ taskState' = [taskState EXCEPT ![t] = "running"]
    /\ UNCHANGED <<grpArgs, grp, sanVars, colVars, waitVars, hkVars>>

FinishTask(t) ==
    /\ taskState[t] = "running"
    /\ taskState' = [taskState EXCEPT ![t] = "success"]
    /\ UNCHANGED <<grpArgs, grp, sanVars, colVars, waitVars, hkVars>>

FailTask(t) ==
    /\ taskState[t] = "running"
    /\ taskState' = [taskState EXCEPT ![t] = "failed"]
    /\ UNCHANGED <<grpArgs, grp, sanVars, colVars, waitVars, hkVars>>

GrpNext ==
    \/ Assemble
    \/ \E t \in Tasks : StartTask(t)
    \/ \E t \in Tasks : FinishTask(t)
    \/ \E t \in Tasks : FailTask(t)

(***************************************************************************)
(* operators.py: the wait_n_hours sensor.  Time is in hours.               *)
(***************************************************************************)
MaxLogical == 2    \* latest logical time of a run
MaxHours   == 3    \* largest n_hours

MaxClock == MaxLogical + MaxHours   \* the clock is modelled up to here

\* A plausible slip: strictly after the target time.
wait_n_hours_strict(logical_time_utc, n_hours, utcnow) ==
    utcnow > logical_time_utc + n_hours

\* _wait_n_hours, with datetime.utcnow() as a parameter.
wait_n_hours(logical_time_utc, n_hours, utcnow) ==
    utcnow >= logical_time_utc + n_hours

NoPoke == [at |-> -1, result |-> FALSE]

WaitIdle ==
    /\ logical = 0 /\ nHours = 0 /\ now = 0
    /\ sensor = "none" /\ lastPoke = NoPoke /\ everFalse = FALSE

\* wait_n_hours_operator: a sensor for a run with some logical time, first
\* scheduled at some time of the clock.
WaitInit ==
    /\ logical \in 0..MaxLogical
    /\ nHours \in -1..MaxHours
    /\ now \in 0..MaxClock
    /\ sensor = "waiting" /\ lastPoke = NoPoke /\ everFalse = FALSE

Tick ==
    /\ now < MaxClock
    /\ now' = now + 1
    /\ UNCHANGED <<logical, nHours, sensor, lastPoke, everFalse,
                   sanVars, colVars, grpVars, hkVars>>

\* One poke of the PythonSensor: the callable's value ends the wait or not.
Poke ==
    /\ sensor = "waiting"
    /\ LET r == wait_n_hours(logical, nHours, now)
       IN  /\ lastPoke' = [at |-> now, result |-> r]
           /\ sensor' = IF r THEN "success" ELSE "waiting"
           /\ everFalse' = (everFalse \/ ~r)
    /\ UNCHANGED <<logical, nHours, now, sanVars, colVars, grpVars, hkVars>>

WaitNext == Tick \/ Poke

(***************************************************************************)
(* experimental_operators.py: the Hawkeye completion sensor.               *)
(***************************************************************************)
MaxGuids == 2      \* longest env_guid list
MaxRows  == 2      \* most rows written to the status table

Guids == {"e1", "e2"}

\* The env_guid argument: None, one str, or a list of str.
EnvGuidArgs ==
    {[type |-> "None", items |-> <<>>]}
    \cup {[type |-> "str", items |-> <<g>>] : g \in Guids}
    \cup {[type |-> "list", items |-> l] :
            l \in UNION {[1..k -> Guids] : k \in 0..MaxGuids}}

\* lw_dw.sot.core_lacework_accounts_d
Accounts ==
    {[env_guid |-> "e1", sfdc_customer_type |-> "Internal", account_status |-> "ENABLED"],
     [env_guid |-> "e2", sfdc_customer_type |-> "Current Customer", account_status |-> "TRIAL"],
     [env_guid |-> "e3", sfdc_customer_type |-> "Former Customer", account_status |-> "ENABLED"],
     [env_guid |-> "e4", sfdc_customer_type |-> "Internal", account_status |-> "DISABLED"]}

\* SQL LOWER on the customer types of Accounts.
Lower(s) ==
    CASE s = "Internal" -> "internal"
      [] s = "Current Customer" -> "current customer"
      [] s = "Former Customer" -> "former customer"
      [] OTHER -> s

\* Rows other pipelines may write to prodn_mdb.platform_internal.hawkeye_stats_t.
StatusRows ==
    [env_guid : Guids, batch_time : {0, 1, 2},
     pipeline_name : {"HOURLY", "DAILY"}, job_name : {"report", "other"}]

\* _get_env_cte: the query that lists the env_guids to wait for.
get_env_cte(env_guid) ==
    IF env_guid.type = "None"
    THEN [from |-> "accounts", values |-> {}]
    ELSE [from |-> "values",
          values |-> {env_guid.items[i] : i \in 1..Len(env_guid.items)}]

\* _wait_for_hawkeye_callback against the status table `table`: the value
\* returned, or "error" when the warehouse rejects the query (VALUES with
\* no row is not valid SQL).
wait_for_hawkeye_callback(ts, pipeline_name, job_name, env_cte, execution_delta, table) ==
    LET batch_time  == ts - execution_delta
        env_guids   ==
            IF env_cte.from = "accounts"
            THEN {a.env_guid : a \in
                    {b \in Accounts :
                        /\ Lower(b.sfdc_customer_type) \in {"internal", "current customer"}
                        /\ b.account_status \in {"ENABLED", "TRIAL"}}}
            ELSE env_cte.values
        completions ==
            {r.env_guid : r \in
                {q \in table : /\ q.batch_time = batch_time
                               /\ q.pipeline_name = pipeline_name
                               /\ q.job_name = job_name}}
        not_complete == Cardinality({e \in env_guids : e \notin completions})
    IN  IF env_cte.from = "values" /\ env_cte.values = {} THEN "error"
        ELSE IF not_complete = 0 THEN "True" ELSE "False"

\* wait_for_hawkeye_operator: the op_args of the sensor, "{{ ts }}" rendered
\* as the logical time ts of the run.
wait_for_hawkeye_operator(ts, pipeline_name, job_name, env_guid, execution_delta) ==
    [ts              |-> ts,
     pipeline_name   |-> pipeline_name,
     job_name        |-> job_name,
     env_guid        |-> env_guid,
     env_cte         |-> get_env_cte(env_guid),
     execution_delta |-> IF execution_delta.given THEN execution_delta.value ELSE 0]

NoSensor ==
    [ts |-> 0, pipeline_name |-> "", job_name |-> "",
     env_guid |-> [type |-> "None", items |-> <<>>],
     env_cte |-> [from |-> "accounts", values |-> {}], execution_delta |-> 0]

NoHkPoke == [done |-> FALSE, result |-> "none", seen |-> {}]

HkIdle == hkArgs = NoSensor /\ statusTable = {} /\ hkPoke = NoHkPoke

HkInit ==
    /\ hkArgs \in {wait_for_hawkeye_operator(ts, "HOURLY", "report", e, d) :
                     ts \in {1, 2}, e \in EnvGuidArgs,
                     d \in {[given |-> FALSE, value |-> 0], [given |-> TRUE, value |-> 1]}}
    /\ statusTable = {}
    /\ hkPoke = NoHkPoke

\* Another pipeline records a completion.
WriteStatus ==
    /\ Cardinality(statusTable) < MaxRows
    /\ \E r \in StatusRows \ statusTable : statusTable' = statusTable \cup {r}
    /\ UNCHANGED <<hkArgs, hkPoke, sanVars, colVars, grpVars, waitVars>>

\* One poke of the sensor.
HkPoke ==
    /\ hkPoke.result \notin {"True", "error"}
    /\ hkPoke' = [done |-> TRUE,
                  result |-> wait_for_hawkeye_callback(
                                 hkArgs.ts, hkArgs.pipeline_name, hkArgs.job_name,
                                 hkArgs.env_cte, hkArgs.execution_delta, statusTable),
                  seen |-> statusTable]
    /\ UNCHANGED <<hkArgs, statusTable, sanVars, colVars, grpVars, waitVars>>

HkNext == WriteStatus \/ HkPoke

(***************************************************************************)
(* Specifications, one per component.                                      *)
(***************************************************************************)
InitSanitizer == SanInit /\ ColIdle /\ GrpIdle /\ WaitIdle /\ HkIdle
InitColumn    == SanIdle /\ ColInit /\ GrpIdle /\ WaitIdle /\ HkIdle
InitGroup     == SanIdle /\ ColIdle /\ GrpIdle /\ WaitIdle /\ HkIdle
InitWait      == SanIdle /\ ColIdle /\ GrpIdle /\ WaitInit /\ HkIdle
InitHawkeye   == SanIdle /\ ColIdle /\ GrpIdle /\ WaitIdle /\ HkInit

SpecSanitizer == InitSanitizer /\ [][SanNext]_vars

SpecColumn == InitColumn /\ [][ColNext]_vars

SpecGroup == InitGroup /\ [][GrpNext]_vars

\* The scheduler re-pokes a rescheduled sensor and the clock advances.
SpecWait == InitWait /\ [][WaitNext]_vars /\ WF_vars(Tick) /\ WF_vars(Poke)

SpecHawkeye == InitHawkeye /\ [][HkNext]_vars

(***************************************************************************)
(* Properties of the sanitizers and the formatter (SpecSanitizer).         *)
(***************************************************************************)
\* ^[A-Za-z_]\w*$ read as: only [A-Za-z0-9_], first character not a digit.
IsIdentifier(s) ==
    /\ Len(s) >= 1
    /\ s[1] \in AsciiLetters \cup {"_"}
    /\ \A i \in 1..Len(s) : s[i] \in WordChars

\* The number of c among the first k characters of s.
CountIn(s, c, k) == Cardinality({i \in 1..k : s[i] = c})

Balanced(s) ==
    /\ \A k \in 1..Len(s) : CountIn(s, "(", k) >= CountIn(s, ")", k)
    /\ CountIn(s, "(", Len(s)) = CountIn(s, ")", Len(s))

PermittedInType(s) ==
    \A i \in 1..Len(s) : s[i] \in WordChars \cup {"(", ")", ",", " "}

\* C1: sanitize_column_name returns every identifier unchanged and fails for
\* every other string, one with a trailing newline included.
C1_NameAcceptedIffIdentifier ==
    fn = "sanitize_column_name" =>
        IF IsIdentifier(arg) THEN ret = Ok(arg) ELSE ~ret.ok

\* C2: sanitize_column_type returns the empty string and every string of
\* permitted characters with balanced parentheses unchanged, and fails for
\* every other string.
C2_TypeAcceptedIffPermittedAndBalanced ==
    fn = "sanitize_column_type" =>
        IF arg = <<>> \/ (PermittedInType(arg) /\ Balanced(arg))
        THEN ret = Ok(arg) ELSE ~ret.ok

\* r is s without its leading and trailing whitespace and then without any
\* of the semicolons that end it.
IsFormatOf(r, s) ==
    \E p \in 0..Len(s), q \in 0..Len(s) :
        /\ p + Len(r) + q <= Len(s)
        /\ \A i \in 1..p : s[i] \in Whitespace
        /\ \A i \in (Len(s) - q + 1)..Len(s) : s[i] \in Whitespace
        /\ p + q < Len(s) => (s[p + 1] \notin Whitespace /\ s[Len(s) - q] \notin Whitespace)
        /\ SubSeq(s, p + 1, p + Len(r)) = r
        /\ \A i \in (p + Len(r) + 1)..(Len(s) - q) : s[i] = ";"
        /\ r /= <<>> => r[Len(r)] /= ";"

\* The number of semicolons that end s.
RECURSIVE TrailingSemicolons(_)
TrailingSemicolons(s) ==
    IF s /= <<>> /\ s[Len(s)] = ";"
    THEN 1 + TrailingSemicolons(SubSeq(s, 1, Len(s) - 1))
    ELSE 0

\* C3 as stated: the result is the trimmed input less at most one trailing
\* semicolon, so k >= 1 trailing semicolons leave k - 1.
C3_StripsOneSemicolon ==
    fn = "format_query" =>
        LET t == Strip(arg)
            k == TrailingSemicolons(t)
        IN  /\ ret.val = SubSeq(t, 1, Len(t) - (IF k >= 1 THEN 1 ELSE 0))
            /\ k >= 1 => TrailingSemicolons(ret.val) = k - 1

\* C3, amended: the result is the trimmed input less all of its trailing
\* semicolons; it ends in no semicolon.
C3_StripsAllSemicolons ==
    fn = "format_query" =>
        /\ ret.ok
        /\ IsFormatOf(ret.val, arg)
        /\ TrailingSemicolons(ret.val) = 0

C3_Witness ==
    /\ fn = "format_query"
    /\ arg = <<" ", ";", ";">>
    /\ ret.val = <<>>

\* The position in the escaped comment of character i of comment c.
EscapedPos(c, i) == i + CountIn(c, "'", i - 1)

\* e is c with a backslash put before every single quote.
IsEscapeOf(e, c) ==
    /\ Len(e) = Len(c) + CountIn(c, "'", Len(c))
    /\ \A i \in 1..Len(c) :
        IF c[i] = "'"
        THEN e[EscapedPos(c, i)] = "\\" /\ e[EscapedPos(c, i) + 1] = "'"
        ELSE e[EscapedPos(c, i)] = c[i]

\* C8: sanitize_comment always succeeds and escapes every single quote;
\* applied to its own output it changes it again iff the comment has a
\* quote, and without a quote both results are the comment.
C8_EscapesEveryQuoteNotIdempotent ==
    fn = "sanitize_comment" =>
        /\ ret.ok
        /\ IsEscapeOf(ret.val, arg)
        /\ again /= NoCall =>
            /\ again.ok
            /\ IF CountIn(arg, "'", Len(arg)) > 0
               THEN again.val /= ret.val
               ELSE again.val = arg /\ ret.val = arg

C8_Witness ==
    /\ fn = "sanitize_comment"
    /\ arg = <<"a", "'", "'">>
    /\ ret.val = <<"a", "\\", "'", "\\", "'">>
    /\ again.val = <<"a", "\\", "\\", "'", "\\", "\\", "'">>

(***************************************************************************)
(* Properties of ColumnSpec (SpecColumn).                                  *)
(***************************************************************************)
NameAndType(c) == c.name \o <<" ">> \o c.col_type

WithComment(c) == NameAndType(c) \o <<" ">> \o CommentOpen \o c.comment \o <<"'">>

\* r is s without the whitespace that ends it.
IsRightTrimOf(r, s) ==
    /\ Len(r) <= Len(s)
    /\ SubSeq(s, 1, Len(r)) = r
    /\ \A i \in (Len(r) + 1)..Len(s) : s[i] \in Whitespace
    /\ r /= <<>> => r[Len(r)] \notin Whitespace

\* C7 as stated: clause fails on an empty type, and otherwise is exactly
\* "{name} {col_type}" or "{name} {col_type} COMMENT '{comment}'", with no
\* trailing whitespace.
C7_ClauseExact ==
    clauseRet /= NoCall =>
        IF colspec.col_type = <<>> THEN ~clauseRet.ok
        ELSE /\ clauseRet.ok
             /\ clauseRet.val = IF colspec.comment = <<>>
                                THEN NameAndType(colspec) ELSE WithComment(colspec)
             /\ clauseRet.val[Len(clauseRet.val)] \notin Whitespace

\* C7, amended: clause fails on an empty type; with a comment it is exactly
\* "{name} {col_type} COMMENT '{comment}'"; without one it is
\* "{name} {col_type}" less its trailing whitespace, which is exactly
\* "{name} {col_type}" when the type does not end in whitespace.  It never
\* ends in whitespace.
C7_ClauseRightTrimmed ==
    clauseRet /= NoCall =>
        IF colspec.col_type = <<>> THEN ~clauseRet.ok
        ELSE /\ clauseRet.ok
             /\ IF colspec.comment = <<>>
                THEN /\ IsRightTrimOf(clauseRet.val, NameAndType(colspec))
                     /\ colspec.col_type[Len(colspec.col_type)] \notin Whitespace
                            => clauseRet.val = NameAndType(colspec)
                ELSE clauseRet.val = WithComment(colspec)
             /\ clauseRet.val[Len(clauseRet.val)] \notin Whitespace

C7_Witness ==
    /\ colspec.state = "made"
    /\ colspec.name = <<"a">>
    /\ colspec.col_type = <<"a", " ">>
    /\ colspec.comment = <<>>
    /\ clauseRet = Ok(<<"a", " ", "a">>)

(***************************************************************************)
(* Properties of the managed task group (SpecGroup).                       *)
(***************************************************************************)
\* The lines of the replace statement that hold text, in order.
Statements == SelectSeq(grp.replace, LAMBDA l : l.text /= <<>>)

\* What a line of the replace statement is, read off its text.
KindOf(text) ==
    CASE text[1] \in {"alter session set", "TIMEZONE = 'UTC'",
                      "TIMESTAMP_TYPE_MAPPING = TIMESTAMP_LTZ", "AUTOCOMMIT = "}
            -> "session_set"
      [] text = <<"BEGIN TRANSACTION;">> -> "begin"
      [] text[1] = "DELETE FROM " -> "delete"
      [] text[1] \in {"INSERT INTO ", "SELECT ", "FROM ("} -> "insert"
      [] text = <<"COMMIT;">> -> "commit"
      [] text[1] = "alter session unset TIMEZONE, TIMESTAMP_TYPE_MAPPING, AUTOCOMMIT;"
            -> "session_unset"
      [] OTHER -> "fragment"

Kinds == [i \in 1..Len(Statements) |-> KindOf(Statements[i].text)]

Where(kind) == {i \in 1..Len(Kinds) : Kinds[i] = kind}

TableOf(a) ==
    << IF "database" \in DOMAIN a.default_args
       THEN a.default_args.database ELSE "dag_db",
       ".",
       IF "schema" \in DOMAIN a.default_args
       THEN a.default_args.schema ELSE "dag_schema",
       ".", a.output_table >>

DeleteHead(a) == <<"DELETE FROM ">> \o TableOf(a) \o <<" WHERE ">>

\* The text of a DELETE line between its head and its closing semicolon.
PredicateOf(text) == SubSeq(text, Len(DeleteHead(grpArgs)) + 1, Len(text) - 1)

\* C4 as stated: no DELETE without replace_where; with one, exactly one
\* DELETE FROM {table} WHERE {replace_where}; with the predicate as given,
\* before the INSERT.
C4_DeleteVerbatim ==
    grp.state = "built" =>
        IF grpArgs.replace_where = <<>> THEN Where("delete") = {}
        ELSE \E i \in 1..Len(Statements) :
                /\ Where("delete") = {i}
                /\ Statements[i].text =
                       DeleteHead(grpArgs) \o grpArgs.replace_where \o <<";">>
                /\ \A j \in Where("insert") : i < j

\* C4, amended: no DELETE without replace_where; with one, exactly one
\* DELETE FROM {table} WHERE {p}; before the INSERT, where p is
\* replace_where with its surrounding whitespace and then its trailing
\* semicolons removed.
C4_DeleteFormatted ==
    grp.state = "built" =>
        IF grpArgs.replace_where = <<>> THEN Where("delete") = {}
        ELSE \E i \in 1..Len(Statements) :
                /\ Where("delete") = {i}
                /\ LET text == Statements[i].text
                   IN  /\ Len(text) > Len(DeleteHead(grpArgs))
                       /\ SubSeq(text, 1, Len(DeleteHead(grpArgs))) = DeleteHead(grpArgs)
                       /\ text[Len(text)] = ";"
                       /\ IsFormatOf(PredicateOf(text), grpArgs.replace_where)
                /\ \A j \in Where("insert") : i < j

C4_Witness ==
    /\ grp.state = "built"
    /\ grpArgs.replace_where = <<"x", ";">>
    /\ \E i \in 1..Len(Statements) :
          Statements[i].text = DeleteHead(grpArgs) \o <<"x", ";">>

Opt(present, kind) == IF present THEN <<kind>> ELSE <<>>

\* C5: replace starts only after create has succeeded, and the replace
\* statement runs session-set, BEGIN (iff create_transaction), pre_insert
\* (if any), DELETE (if any), INSERT, post_insert (if any), COMMIT (iff
\* BEGIN), session-unset, in this order, the session-unset last.
C5_StepOrder ==
    /\ taskState["replace"] /= "none" => taskState["create"] = "success"
    /\ grp.state = "built" =>
        /\ Kinds = <<"session_set", "session_set", "session_set", "session_set">>
                   \o Opt(grpArgs.create_transaction, "begin")
                   \o Opt(grpArgs.pre_insert /= <<>>, "fragment")
                   \o Opt(grpArgs.replace_where /= <<>>, "delete")
                   \o <<"insert", "insert", "insert">>
                   \o Opt(grpArgs.post_insert /= <<>>, "fragment")
                   \o Opt(grpArgs.create_transaction, "commit")
                   \o <<"session_unset">>
        /\ (Where("commit") /= {}) <=> (Where("begin") /= {})
        /\ Kinds[Len(Kinds)] = "session_unset"
        /\ \A i \in Where("fragment") :
              IF \E j \in Where("insert") : i < j
              THEN IsFormatOf(SubSeq(Statements[i].text, 1, Len(Statements[i].text) - 1),
                              grpArgs.pre_insert)
              ELSE IsFormatOf(SubSeq(Statements[i].text, 1, Len(Statements[i].text) - 1),
                              grpArgs.post_insert)

C5_Witness ==
    /\ grp.state = "built"
    /\ taskState["create"] = "success"
    /\ taskState["replace"] = "success"
    /\ grpArgs.create_transaction
    /\ grpArgs.pre_insert /= <<>>
    /\ grpArgs.replace_where /= <<>>
    /\ grpArgs.post_insert /= <<>>
    /\ Len(Kinds) = 13

ColumnNames == [i \in 1..Len(grpArgs.output_columns) |-> grpArgs.output_columns[i].name]

\* C6: the call produces steps only for a non-empty column list with unique
\* names, and fails for an empty list or a repeated name.
C6_ColumnsNonEmptyUnique ==
    grp.state = "built" =>
        /\ grpArgs.output_columns /= <<>>
        /\ \A i, j \in 1..Len(ColumnNames) : ColumnNames[i] = ColumnNames[j] => i = j

(***************************************************************************)
(* Properties of the wait_n_hours sensor (SpecWait).                       *)
(***************************************************************************)
TargetReached == now >= logical + nHours

\* C9: a poke returns True iff the clock is at or after logical time plus
\* n_hours, and True ends the wait; once the target time is reached it
\* stays reached; and the sensor, poked again and again while the clock
\* advances, eventually succeeds.
C9_WaitSensor ==
    /\ [](lastPoke /= NoPoke =>
            /\ lastPoke.result <=> (lastPoke.at >= logical + nHours)
            /\ lastPoke.result <=> (sensor = "success"))
    /\ [][TargetReached => TargetReached']_vars
    /\ [][TargetReached /\ sensor = "waiting" /\ lastPoke' /= lastPoke
            => sensor' = "success"]_vars
    /\ <>(sensor = "success")

C9_Witness ==
    /\ sensor = "success"
    /\ everFalse
    /\ lastPoke = [at |-> logical + nHours, result |-> TRUE]

(***************************************************************************)
(* Properties of the Hawkeye sensor (SpecHawkeye).                         *)
(***************************************************************************)
\* The env_guids the sensor was asked to wait for.
Requested ==
    IF hkArgs.env_guid.type = "None" THEN {"e1", "e2"}
    ELSE {hkArgs.env_guid.items[i] : i \in 1..Len(hkArgs.env_guid.items)}

HasCompletion(e, table) ==
    \E r \in table :
        /\ r.env_guid = e
        /\ r.batch_time = hkArgs.ts - hkArgs.execution_delta
        /\ r.pipeline_name = hkArgs.pipeline_name
        /\ r.job_name = hkArgs.job_name

\* C10: a poke returns True iff every requested env_guid has a row of the
\* status table for the run's batch time, pipeline and job, and it leaves
\* the table as it read it.
C10_PokeTrueIffAllComplete ==
    hkPoke.done =>
        /\ hkPoke.result =
              IF \A e \in Requested : HasCompletion(e, hkPoke.seen)
              THEN "True" ELSE "False"
        /\ hkPoke.seen \subseteq statusTable

====
